---- MODULE Spec2Model ----
(***************************************************************************)
(* Model of insurance_submissions.py: the sequential driver main(), the    *)
(* two extraction stages, the run-polling loop and the text cleanup pass.  *)
(* Texts are sequences of characters; a character is a one-element string, *)
(* a non-ASCII character is written by its code point ("U+3010").          *)
(***************************************************************************)
EXTENDS Integers, Sequences, FiniteSets, TLC

\* ------------------------------------------------------------------------
\* Characters and texts
\* ------------------------------------------------------------------------
BS == "\\"
LF == "LF"
QUOTE == "\""
DASH == "-"

\* the search patterns of lines 246-249 (Python '\\u3010' is backslash,u,3,0,1,0)
Esc3010 == <<BS, "u", "3", "0", "1", "0">>
Esc3011 == <<BS, "u", "3", "0", "1", "1">>
Esc2020 == <<BS, "u", "2", "0", "2", "0">>
EscN == <<BS, "n">>

\* the replacement of line 248: the three characters U+00E2 U+20AC U+00A0
DaggerRepl == <<"U+00E2", "U+20AC", "U+00A0">>

MatchAt(s, pat, i) ==
    /\ i + Len(pat) - 1 <= Len(s)
    /\ \A k \in 1..Len(pat) : s[i + k - 1] = pat[k]

\* the first occurrence of pat in s at or after position i, 0 when none
FirstMatch(s, pat, i) ==
    LET M == {j \in i..Len(s) : MatchAt(s, pat, j)}
    IN IF M = {} THEN 0 ELSE CHOOSE j \in M : \A k \in M : j <= k

RECURSIVE ReplaceFrom(_, _, _, _)
ReplaceFrom(s, pat, rep, i) ==
    LET j == FirstMatch(s, pat, i)
    IN IF j = 0 THEN SubSeq(s, i, Len(s))
       ELSE SubSeq(s, i, j - 1) \o rep \o ReplaceFrom(s, pat, rep, j + Len(pat))

\* a replace that stops after the first occurrence (str.replace(old, new, 1))
ReplaceFirstOnly(s, pat, rep) ==
    LET i == FirstMatch(s, pat, 1)
    IN IF i = 0 THEN s
       ELSE SubSeq(s, 1, i - 1) \o rep \o SubSeq(s, i + Len(pat), Len(s))

\* str.replace(old, new): every non-overlapping occurrence, left to right
Replace(s, pat, rep) == ReplaceFrom(s, pat, rep, 1)

\* lines 246-248
Substitute(t) ==
    Replace(Replace(Replace(t, Esc3010, <<"[">>), Esc3011, <<"]">>),
            Esc2020, DaggerRepl)

\* the pass with a newline replacement that stops at the first occurrence
CleanupFirstNewline(t) == ReplaceFirstOnly(Substitute(t), EscN, <<LF>>)
\* lines 246-249
Cleanup(t) == Replace(Substitute(t), EscN, <<LF>>)

\* json.dumps of one character of a str (ensure_ascii is the default)
JsonEscape(c) ==
    CASE c = QUOTE -> <<BS, QUOTE>>
      [] c = BS -> <<BS, BS>>
      [] c = LF -> EscN
      [] c = "U+3010" -> Esc3010
      [] c = "U+3011" -> Esc3011
      [] c = "U+2020" -> Esc2020
      [] OTHER -> <<c>>

RECURSIVE JsonBody(_)
JsonBody(v) == IF v = <<>> THEN <<>> ELSE JsonEscape(Head(v)) \o JsonBody(Tail(v))

\* json.dumps(output_data, indent=2) of a str: the quoted, escaped string
JsonDumps(v) == <<QUOTE>> \o JsonBody(v) \o <<QUOTE>>

Dashes(n) == [i \in 1..n |-> DASH]

\* line 178: the text around the row-extraction JSON string
RowPrefix == <<LF, LF>> \o Dashes(24) \o <<LF, LF>>
RowSuffix == <<LF, LF>> \o Dashes(33)
\* line 210
AggPrefix == <<LF, LF>>
AggSuffix == <<LF, LF>>

Contains(s, pat) == \E i \in 1..Len(s) : MatchAt(s, pat, i)

\* ------------------------------------------------------------------------
\* Bounds and input sets
\* ------------------------------------------------------------------------
MaxFiles == 2       \* files in one submission folder
MaxPolls == 2       \* retrieve calls explored in one monitor_thread_run call
MaxFrags == 3       \* fragments in an input text of the cleanup pass

SleepInterval == 5  \* time.sleep(5)

Names == {"A", "B"}                       \* entries of submissions/
Exts == {"pdf", "docx", "xlsx", "csv"}    \* file name suffixes that occur
MaxOld == 1         \* archive folders that exist under processed/ at the start

\* the texts the assistant may answer with
BasicReplies == { <<"x", LF>> }
RichReplies == { <<"x">>,
                 <<"U+3010", "y", "U+3011", LF>>,
                 <<BS, "n", "U+2020", QUOTE>> }
RunStatuses == {"queued", "completed", "cancelled", "expired", "failed"}

\* a file: the suffix of its name and its contents
File(e, b) == [ext |-> e, body |-> b]

NoEntry == [kind |-> "none", files |-> {}]
PlainEntry == [kind |-> "file", files |-> {}]
Dir(n, S) == [kind |-> "dir", files |-> {File(e, n) : e \in S}]
FolderChoices == {S \in SUBSET Exts : Cardinality(S) <= MaxFiles}
Entries(n) == {NoEntry, PlainEntry} \cup {Dir(n, S) : S \in FolderChoices}

NoSub == [exists |-> FALSE, files |-> {}]
NoArchive == [exists |-> FALSE, files |-> {}, outs |-> {}, sub |-> NoSub]
OldFiles == {File("pdf", "old")}
OldOuts == {[ts |-> 0, text |-> <<"o">>]}
OldArchive == [exists |-> TRUE, files |-> OldFiles, outs |-> OldOuts, sub |-> NoSub]
OldNested == [exists |-> TRUE, files |-> OldFiles, outs |-> OldOuts,
              sub |-> [exists |-> TRUE, files |-> OldFiles]]

NoBuf == [exists |-> FALSE, text |-> <<>>]
Buf(t) == [exists |-> TRUE, text |-> t]
StaleFiles == {File("pdf", "stale"), File("csv", "stale")}
StaleBuf == Buf(<<"s">>)

NoRun == [id |-> 0, status |-> "none"]
NoValue == [has |-> FALSE, v |-> <<>>]
Value(v) == [has |-> TRUE, v |-> v]
NoReplies == [pdf |-> NoValue, row |-> NoValue, agg |-> NoValue]
Remote0 == [live |-> {}, created |-> 0, bound |-> 0,
            threads |-> 0, runs |-> 0, files |-> 0]

Fragments == { <<BS>>, <<"n">>, <<LF>>, EscN, Esc3010, Esc3011, Esc2020,
               <<BS, "u", "3", "0">>, <<"1", "0">> }
RECURSIVE TextsOf(_)
TextsOf(k) ==
    IF k = 0 THEN { <<>> }
    ELSE LET T == TextsOf(k - 1)
         IN T \cup {t \o f : t \in T, f \in Fragments}
TextInputs == TextsOf(MaxFrags)

\* ------------------------------------------------------------------------
\* State
\* ------------------------------------------------------------------------
VARIABLES
    subs,        \* submissions/<name>: the entry and, for a folder, its files
    proc,        \* processed/<name>: files, output files, processed/<name>/<name>
    data,        \* data/: the files other than submission.txt
    buf,         \* data/submission.txt
    now,         \* the clock datetime.now() reads, in seconds
    remote,      \* the assistant service: live indexes, binding, call counts
    todo,        \* what is left of os.listdir(SUBMISSIONS_DIR)
    cur,         \* submission_folder
    pc,          \* the statement main() is at
    crashAt,     \* where the process stopped, once it was killed or aborted
    vs,          \* vector_store.id
    output_data, \* output_data
    text,        \* text
    status,      \* monitor_thread_run: status
    polls,       \* monitor_thread_run: number of retrieve calls made
    slept,       \* monitor_thread_run: time slept
    run,         \* monitor_thread_run: run
    runId,       \* the run the caller created
    retpc,       \* where monitor_thread_run returns to
    returned,    \* the value monitor_thread_run just returned
    rep,         \* the replies read in this iteration
    replies,     \* the texts the assistant answers with
    orig,        \* submissions/ as it was when main() started
    ctext, cmode, chist   \* the cleanup pass applied to a text on its own

fsVars == <<subs, proc, data, buf, now>>
monVars == <<status, polls, slept, run, runId, retpc, returned>>
cleanVars == <<replies, ctext, cmode, chist>>
vars == <<subs, proc, data, buf, now, remote, todo, cur, pc, crashAt, vs,
          output_data, text, status, polls, slept, run, runId, retpc,
          returned, rep, orig, replies, ctext, cmode, chist>>

RECURSIVE Orders(_)
Orders(S) ==
    IF S = {} THEN { <<>> }
    ELSE UNION { {<<n>> \o o : o \in Orders(S \ {n})} : n \in S }

IdleLocals ==
    /\ cur = "-" /\ crashAt = "-" /\ vs = 0
    /\ output_data = <<>> /\ text = <<>>
    /\ status = "none" /\ polls = 0 /\ slept = 0 /\ run = NoRun
    /\ runId = 0 /\ retpc = "-" /\ returned = NoRun
    /\ rep = NoReplies /\ remote = Remote0 /\ now = 1

\* lines 42-49 and 216-219: the directories exist, main() lists submissions/
Init ==
    /\ subs \in {f \in [Names -> UNION {Entries(n) : n \in Names}] :
                    \A n \in Names : f[n] \in Entries(n)}
    /\ orig = subs
    /\ proc \in {f \in [Names -> {NoArchive, OldArchive, OldNested}] :
                    Cardinality({n \in Names : f[n].exists}) <= MaxOld}
    /\ replies = BasicReplies
    /\ \E stale \in BOOLEAN :
          /\ data = IF stale THEN StaleFiles ELSE {}
          /\ buf = IF stale THEN StaleBuf ELSE NoBuf
    /\ todo \in Orders({n \in Names : subs[n].kind # "none"})
    /\ pc = "loop"
    /\ IdleLocals
    /\ ctext = <<>> /\ cmode = "-" /\ chist = <<>>

\* ------------------------------------------------------------------------
\* main(): intake
\* ------------------------------------------------------------------------
locals == <<vs, output_data, text, rep>>

\* line 232: file_name.endswith((".pdf", ".docx", ".xlsx"))
CopiedExts == {"pdf", "docx", "xlsx"}
Eligible(f) == f.ext \in CopiedExts

\* lines 229-233: the files shutil.copy puts into data/
CopyEveryFile(folder) == folder
CopyFiles(folder) == {f \in folder : Eligible(f)}

\* lines 225-227: what is left of data/ after the removal loop
ClearedData(d) == {}

\* lines 219-223: take the next entry; lines 268: leave the loop
NextEntry ==
    /\ pc = "loop"
    /\ IF todo = <<>>
       THEN /\ pc' = "done"
            /\ UNCHANGED <<todo, cur>>
       ELSE /\ cur' = Head(todo)
            /\ todo' = Tail(todo)
            /\ pc' = IF subs[Head(todo)].kind = "dir" THEN "clear" ELSE "loop"
    /\ UNCHANGED <<fsVars, remote, crashAt, locals, monVars, orig, cleanVars>>

\* lines 225-227
ClearData ==
    /\ pc = "clear"
    /\ data' = ClearedData(data)
    /\ buf' = NoBuf
    /\ rep' = NoReplies
    /\ pc' = "copy"
    /\ UNCHANGED <<subs, proc, now, remote, todo, cur, crashAt, vs,
                   output_data, text, monVars, orig, cleanVars>>

\* lines 230-233
IntakeCopy ==
    /\ pc = "copy"
    /\ data' = data \cup CopyFiles(subs[cur].files)
    /\ pc' = "pdf_create"
    /\ UNCHANGED <<subs, proc, buf, now, remote, todo, cur, crashAt, locals,
                   monVars, orig, cleanVars>>

\* ------------------------------------------------------------------------
\* monitor_thread_run
\* ------------------------------------------------------------------------
\* line 55: the statuses that end the loop
ExitOnAnyStatus == RunStatuses
LoopExitStatuses == {"completed", "cancelled", "expired", "failed"}

\* lines 53-54, entered from a caller that has just created run r
CallMonitor(r, ret) ==
    /\ runId' = r
    /\ status' = "in_progress"
    /\ polls' = 0
    /\ slept' = 0
    /\ run' = NoRun
    /\ returned' = NoRun
    /\ retpc' = ret
    /\ pc' = "poll"

\* the caller goes on: the frame of monitor_thread_run is gone and the
\* caller never reads the run it got back
DropMonitor ==
    /\ runId' = 0
    /\ status' = "none"
    /\ polls' = 0
    /\ slept' = 0
    /\ run' = NoRun
    /\ returned' = NoRun
    /\ retpc' = "-"

\* lines 55-61: one turn of the loop
MonitorPoll ==
    /\ pc = "poll"
    /\ status \notin LoopExitStatuses
    /\ polls < MaxPolls
    /\ \E s \in RunStatuses :
          /\ run' = [id |-> runId, status |-> s]
          /\ status' = s
    /\ polls' = polls + 1
    /\ slept' = slept + SleepInterval
    /\ UNCHANGED <<fsVars, remote, todo, cur, pc, crashAt, locals, runId,
                   retpc, returned, orig, cleanVars>>

\* lines 55 and 62: the loop condition fails, return run
MonitorReturn ==
    /\ pc = "poll"
    /\ status \in LoopExitStatuses
    /\ returned' = run
    /\ pc' = retpc
    /\ UNCHANGED <<fsVars, remote, todo, cur, crashAt, locals, status, polls,
                   slept, run, runId, retpc, orig, cleanVars>>

\* ------------------------------------------------------------------------
\* process_submission_pdf
\* ------------------------------------------------------------------------
\* open(..., "w"): the file is truncated
Overwritten(b, t) == Buf(t)
\* an append that opens the file with "w"
AppendTruncating(b, t) == Buf(t)
\* open(..., "a"): the file is created when missing, else written at its end
Appended(b, t) == Buf(b.text \o t)

\* line 67
PdfCreateIndex ==
    /\ pc = "pdf_create"
    /\ remote' = [remote EXCEPT !.created = @ + 1,
                                !.live = @ \cup {remote.created + 1}]
    /\ vs' = remote.created + 1
    /\ pc' = "pdf_upload"
    /\ UNCHANGED <<fsVars, todo, cur, crashAt, output_data, text, rep,
                   monVars, orig, cleanVars>>

\* line 70: glob of *.pdf and *.docx in data/
PdfFiles(d) == {f \in d : f.ext \in {"pdf", "docx"}}

\* lines 70-82: every file found is uploaded into the index, none included
PdfUpload ==
    /\ pc = "pdf_upload"
    /\ remote' = [remote EXCEPT !.files = @ + Cardinality(PdfFiles(data))]
    /\ pc' = "pdf_bind"
    /\ UNCHANGED <<fsVars, todo, cur, crashAt, locals, monVars, orig, cleanVars>>

\* lines 85-88
PdfBind ==
    /\ pc = "pdf_bind"
    /\ remote' = [remote EXCEPT !.bound = vs]
    /\ pc' = "pdf_thread"
    /\ UNCHANGED <<fsVars, todo, cur, crashAt, locals, monVars, orig, cleanVars>>

\* lines 90-95
PdfThread ==
    /\ pc = "pdf_thread"
    /\ remote' = [remote EXCEPT !.threads = @ + 1]
    /\ pc' = "pdf_run"
    /\ UNCHANGED <<fsVars, todo, cur, crashAt, locals, monVars, orig, cleanVars>>

\* lines 97-103
PdfRun ==
    /\ pc = "pdf_run"
    /\ remote' = [remote EXCEPT !.runs = @ + 1]
    /\ CallMonitor(remote.runs + 1, "pdf_list")
    /\ UNCHANGED <<fsVars, todo, cur, crashAt, locals, orig, cleanVars>>

\* lines 106-113: the text value of the first content block of the first message
PdfList ==
    /\ pc = "pdf_list"
    /\ \E v \in replies :
          /\ output_data' = v
          /\ rep' = [rep EXCEPT !.pdf = Value(v)]
    /\ DropMonitor
    /\ pc' = "pdf_write"
    /\ UNCHANGED <<fsVars, remote, todo, cur, crashAt, vs, text, orig, cleanVars>>

\* lines 116-118: open(..., "w") and write
PdfWrite ==
    /\ pc = "pdf_write"
    /\ buf' = Overwritten(buf, JsonDumps(output_data))
    /\ pc' = "pdf_delete"
    /\ UNCHANGED <<subs, proc, data, now, remote, todo, cur, crashAt, locals,
                   monVars, orig, cleanVars>>

\* the stage returning without the delete call
PdfDeleteSkipped ==
    /\ pc = "pdf_delete"
    /\ vs' = 0
    /\ output_data' = <<>>
    /\ pc' = "xlsx_glob"
    /\ UNCHANGED <<fsVars, remote, todo, cur, crashAt, text, rep, monVars, orig,
                   cleanVars>>

\* line 123, then the return to main()
PdfDelete ==
    /\ pc = "pdf_delete"
    /\ remote' = [remote EXCEPT !.live = @ \ {vs}]
    /\ vs' = 0
    /\ output_data' = <<>>
    /\ pc' = "xlsx_glob"
    /\ UNCHANGED <<fsVars, todo, cur, crashAt, text, rep, monVars, orig, cleanVars>>

\* ------------------------------------------------------------------------
\* process_submission_xlsx
\* ------------------------------------------------------------------------
\* a glob that matches every file of data/
AllFiles(d) == d
\* line 129: glob of *.xlsx, *.xls and *.csv in data/
XlsxFiles(d) == {f \in d : f.ext \in {"xlsx", "xls", "csv"}}

\* lines 129-135
XlsxGlob ==
    /\ pc = "xlsx_glob"
    /\ pc' = IF XlsxFiles(data) = {} THEN "read_out" ELSE "xlsx_upload"
    /\ UNCHANGED <<fsVars, remote, todo, cur, crashAt, locals, monVars, orig,
                   cleanVars>>

\* lines 137-141
XlsxUpload ==
    /\ pc = "xlsx_upload"
    /\ remote' = [remote EXCEPT !.files = @ + 1]
    /\ pc' = "xlsx_thread"
    /\ UNCHANGED <<fsVars, todo, cur, crashAt, locals, monVars, orig, cleanVars>>

\* lines 144-155
XlsxThread ==
    /\ pc = "xlsx_thread"
    /\ remote' = [remote EXCEPT !.threads = @ + 1]
    /\ pc' = "xlsx_run1"
    /\ UNCHANGED <<fsVars, todo, cur, crashAt, locals, monVars, orig, cleanVars>>

\* lines 157-163
XlsxRun1 ==
    /\ pc = "xlsx_run1"
    /\ remote' = [remote EXCEPT !.runs = @ + 1]
    /\ CallMonitor(remote.runs + 1, "xlsx_list1")
    /\ UNCHANGED <<fsVars, todo, cur, crashAt, locals, orig, cleanVars>>

\* lines 166-173
XlsxList1 ==
    /\ pc = "xlsx_list1"
    /\ \E v \in replies :
          /\ output_data' = v
          /\ rep' = [rep EXCEPT !.row = Value(v)]
    /\ DropMonitor
    /\ pc' = "xlsx_append1"
    /\ UNCHANGED <<fsVars, remote, todo, cur, crashAt, vs, text, orig, cleanVars>>

\* lines 176-178
XlsxAppend1 ==
    /\ pc = "xlsx_append1"
    /\ buf' = Appended(buf, RowPrefix \o JsonDumps(output_data) \o RowSuffix)
    /\ pc' = "xlsx_msg2"
    /\ UNCHANGED <<subs, proc, data, now, remote, todo, cur, crashAt, locals,
                   monVars, orig, cleanVars>>

\* lines 183-195
XlsxRun2 ==
    /\ pc = "xlsx_msg2"
    /\ remote' = [remote EXCEPT !.runs = @ + 1]
    /\ CallMonitor(remote.runs + 1, "xlsx_list2")
    /\ UNCHANGED <<fsVars, todo, cur, crashAt, locals, orig, cleanVars>>

\* lines 198-205
XlsxList2 ==
    /\ pc = "xlsx_list2"
    /\ \E v \in replies :
          /\ output_data' = v
          /\ rep' = [rep EXCEPT !.agg = Value(v)]
    /\ DropMonitor
    /\ pc' = "xlsx_append2"
    /\ UNCHANGED <<fsVars, remote, todo, cur, crashAt, vs, text, orig, cleanVars>>

\* lines 208-212, then the return to main()
XlsxAppend2 ==
    /\ pc = "xlsx_append2"
    /\ buf' = Appended(buf, AggPrefix \o JsonDumps(output_data) \o AggSuffix)
    /\ output_data' = <<>>
    /\ pc' = "read_out"
    /\ UNCHANGED <<subs, proc, data, now, remote, todo, cur, crashAt, vs, text,
                   rep, monVars, orig, cleanVars>>

\* ------------------------------------------------------------------------
\* main(): cleanup and archival
\* ------------------------------------------------------------------------
\* lines 241-243
ReadOut ==
    /\ pc = "read_out"
    /\ buf.exists
    /\ text' = buf.text
    /\ pc' = "clean"
    /\ UNCHANGED <<fsVars, remote, todo, cur, crashAt, vs, output_data, rep,
                   monVars, orig, cleanVars>>

\* lines 246-253
CleanWrite ==
    /\ pc = "clean"
    /\ text' = Cleanup(text)
    /\ buf' = Overwritten(buf, Cleanup(text))
    /\ pc' = "move_folder"
    /\ UNCHANGED <<subs, proc, data, now, remote, todo, cur, crashAt, vs,
                   output_data, rep, monVars, orig, cleanVars>>

\* shutil.move(src, dst) of a directory: into dst when dst is a directory
MoveTarget(n) ==
    IF ~proc[n].exists THEN "top"
    ELSE IF ~proc[n].sub.exists THEN "nested"
    ELSE "conflict"

\* lines 256-257
MoveFolder ==
    /\ pc = "move_folder"
    /\ MoveTarget(cur) # "conflict"
    /\ proc' = IF MoveTarget(cur) = "top"
               THEN [proc EXCEPT ![cur] = [exists |-> TRUE,
                                           files |-> subs[cur].files,
                                           outs |-> {}, sub |-> NoSub]]
               ELSE [proc EXCEPT ![cur].sub = [exists |-> TRUE,
                                               files |-> subs[cur].files]]
    /\ subs' = [subs EXCEPT ![cur] = NoEntry]
    /\ pc' = "move_out"
    /\ UNCHANGED <<data, buf, now, remote, todo, cur, crashAt, locals,
                   monVars, orig, cleanVars>>

\* the output file moved out of data/ but not into the archive folder
MoveOutElsewhere ==
    /\ pc = "move_out"
    /\ buf.exists
    /\ buf' = NoBuf
    /\ pc' = "prompt"
    /\ UNCHANGED <<subs, proc, data, now, remote, todo, cur, crashAt, locals,
                   monVars, orig, cleanVars>>

\* lines 260-264: submission.txt goes to processed/<name>/submission_<now>.txt
MoveOut ==
    /\ pc = "move_out"
    /\ buf.exists
    /\ proc' = [proc EXCEPT ![cur].outs =
                   {o \in @ : o.ts # now} \cup {[ts |-> now, text |-> buf.text]}]
    /\ buf' = NoBuf
    /\ pc' = "prompt"
    /\ UNCHANGED <<subs, data, now, remote, todo, cur, crashAt, locals,
                   monVars, orig, cleanVars>>

\* line 267: the operator presses Enter, time has passed
Prompt ==
    /\ pc = "prompt"
    /\ now' = now + 1
    /\ pc' = "loop"
    /\ UNCHANGED <<subs, proc, data, buf, remote, todo, cur, crashAt, locals,
                   monVars, orig, cleanVars>>

\* ------------------------------------------------------------------------
\* The ways the process stops early
\* ------------------------------------------------------------------------
\* the statements that call the assistant service
RemoteCalls == {"pdf_create", "pdf_upload", "pdf_bind", "pdf_thread", "pdf_run",
                "poll", "pdf_list", "pdf_delete", "xlsx_upload", "xlsx_thread",
                "xlsx_run1", "xlsx_list1", "xlsx_msg2", "xlsx_list2"}

CanRaise ==
    \/ pc \in RemoteCalls
    \/ pc = "read_out" /\ ~buf.exists
    \/ pc = "move_folder" /\ MoveTarget(cur) = "conflict"
    \/ pc = "move_out" /\ ~buf.exists

\* no statement of the program catches an exception: the program aborts
\* the process is gone and its memory with it; what stays is the file
\* system, the assistant service, and where the process was
Dead ==
    /\ crashAt' = pc
    /\ todo' = <<>>
    /\ vs' = 0 /\ output_data' = <<>> /\ text' = <<>> /\ rep' = NoReplies
    /\ runId' = 0 /\ status' = "none" /\ polls' = 0 /\ slept' = 0
    /\ run' = NoRun /\ returned' = NoRun
    /\ UNCHANGED <<fsVars, remote, cur, retpc, orig, cleanVars>>

Raise ==
    /\ CanRaise
    /\ pc' = "aborted"
    /\ Dead

Stopped == {"done", "aborted", "killed"}

\* the process is killed from outside, at any statement
Kill ==
    /\ pc \notin Stopped
    /\ pc' = "killed"
    /\ Dead

Next ==
    \/ NextEntry \/ ClearData \/ IntakeCopy
    \/ PdfCreateIndex \/ PdfUpload \/ PdfBind \/ PdfThread \/ PdfRun
    \/ MonitorPoll \/ MonitorReturn
    \/ PdfList \/ PdfWrite \/ PdfDelete
    \/ XlsxGlob \/ XlsxUpload \/ XlsxThread \/ XlsxRun1 \/ XlsxList1
    \/ XlsxAppend1 \/ XlsxRun2 \/ XlsxList2 \/ XlsxAppend2
    \/ ReadOut \/ CleanWrite \/ MoveFolder \/ MoveOut \/ Prompt
    \/ Raise \/ Kill

Spec == Init /\ [][Next]_vars

\* ------------------------------------------------------------------------
\* The cleanup pass on its own: a text, then the pass applied once and twice
\* ------------------------------------------------------------------------
InitClean ==
    /\ subs = [n \in Names |-> NoEntry]
    /\ orig = subs
    /\ proc = [n \in Names |-> NoArchive]
    /\ data = {} /\ buf = NoBuf
    /\ todo = <<>>
    /\ pc = "done"
    /\ IdleLocals
    /\ replies = BasicReplies
    /\ ctext \in TextInputs
    /\ cmode \in {"subst", "full"}
    /\ chist = <<>>

driverVars == <<subs, proc, data, buf, now, remote, todo, cur, pc, crashAt, vs,
                output_data, text, status, polls, slept, run, runId, retpc,
                returned, rep, orig, replies>>

\* lines 246-248 applied to the result of the pass before
SubstPass ==
    /\ cmode = "subst"
    /\ Len(chist) < 2
    /\ chist' = Append(chist, Substitute(IF chist = <<>> THEN ctext
                                         ELSE chist[Len(chist)]))
    /\ UNCHANGED <<driverVars, ctext, cmode>>

\* lines 246-249 applied to the result of the pass before
CleanPass ==
    /\ cmode = "full"
    /\ Len(chist) < 2
    /\ chist' = Append(chist, Cleanup(IF chist = <<>> THEN ctext
                                      ELSE chist[Len(chist)]))
    /\ UNCHANGED <<driverVars, ctext, cmode>>

\* one folder with one .pdf and one .xlsx, and an assistant that answers
\* with texts that hold quotes, backslashes, newlines and non-ASCII characters
InitE2E ==
    /\ subs = [n \in Names |-> IF n = "A" THEN Dir("A", {"pdf", "xlsx"})
                                ELSE NoEntry]
    /\ orig = subs
    /\ proc \in {f \in [Names -> {NoArchive, OldArchive, OldNested}] :
                    Cardinality({n \in Names : f[n].exists}) <= MaxOld}
    /\ \E stale \in BOOLEAN :
          /\ data = IF stale THEN StaleFiles ELSE {}
          /\ buf = IF stale THEN StaleBuf ELSE NoBuf
    /\ todo = <<"A">>
    /\ pc = "loop"
    /\ IdleLocals
    /\ replies = RichReplies
    /\ ctext = <<>> /\ cmode = "-" /\ chist = <<>>

SpecE2E == InitE2E /\ [][Next]_vars

NextClean == SubstPass \/ CleanPass

SpecClean == InitClean /\ [][NextClean]_vars

\* ------------------------------------------------------------------------
\* Properties
\* ------------------------------------------------------------------------
Range(q) == {q[i] : i \in 1..Len(q)}
Crashed == pc \in {"killed", "aborted"}
InFolder == cur \in Names
ExtsOf(files) == {f.ext : f \in files}
OnlyTabular(files) == files # {} /\ ExtsOf(files) \subseteq {"xlsx", "csv"}
NoTabular(files) == ExtsOf(files) \cap {"xlsx", "xls", "csv"} = {}
TerminalStatuses == {"completed", "cancelled", "expired", "failed"}
RecognizedTypes == {"pdf", "docx", "xlsx"}
RawEscapes == {Esc3010, Esc3011, Esc2020}

\* what the spreadsheet stage wrote in this iteration
SpreadsheetContent ==
    IF ~rep.row.has THEN <<>>
    ELSE RowPrefix \o JsonDumps(rep.row.v) \o RowSuffix
         \o (IF rep.agg.has
             THEN AggPrefix \o JsonDumps(rep.agg.v) \o AggSuffix ELSE <<>>)

\* C1: for a folder that holds only .xlsx/.csv files, submission.txt at the
\* end of the two extraction stages holds only what the spreadsheet stage
\* wrote, nothing written by the PDF stage.
C1_OnlySpreadsheetContent ==
    (pc = "read_out" /\ InFolder /\ OnlyTabular(orig[cur].files))
        => buf.text = SpreadsheetContent

\* C2: for a folder with no tabular file, process_submission_xlsx returns
\* without raising and leaves submission.txt and the assistant service as
\* they were: no append, no upload, no thread, no run.
C2_NoTabularNoEffect ==
    [][(pc = "xlsx_glob" /\ NoTabular(subs[cur].files))
          => /\ pc' \in {"read_out", "killed"}
             /\ buf' = buf
             /\ remote' = remote]_vars

C2_Witness ==
    /\ pc = "read_out" /\ InFolder
    /\ subs[cur].files # {} /\ NoTabular(subs[cur].files)
    /\ ~rep.row.has
    /\ rep.pdf.has /\ buf = Buf(JsonDumps(rep.pdf.v))

\* C3: right after the intake copy, data/ holds exactly the files of the
\* current folder whose suffix is .pdf, .docx or .xlsx: no other file of the
\* folder, nothing from an earlier iteration, no submission.txt.
C3_ScratchIsEligibleFiles ==
    pc = "pdf_create"
        => /\ data = {f \in subs[cur].files : f.ext \in RecognizedTypes}
           /\ ~buf.exists

C3_Witness ==
    /\ pc = "pdf_create"
    /\ now > 1
    /\ "csv" \in ExtsOf(subs[cur].files)
    /\ data # {}

\* the archive file the current iteration produced
ArchivedNow == {o \in proc[cur].outs : o.ts = now}

\* C4: for a folder with one .pdf and one .xlsx the archive file is, in this
\* order, the PDF reply as a JSON string, the delimiter line, the row reply
\* as a JSON string, (a second delimiter line,) the aggregate reply as a JSON
\* string, each as the cleanup pass leaves it, built from the replies of this
\* iteration only; no 【, 】 or † escape is left in it.
C4_ArchiveLayout ==
    (pc = "prompt" /\ ExtsOf(orig[cur].files) = {"pdf", "xlsx"})
        => /\ Cardinality(ArchivedNow) = 1
           /\ \A o \in ArchivedNow :
                /\ o.text = Cleanup(JsonDumps(rep.pdf.v))
                            \o <<LF, LF>> \o Dashes(24) \o <<LF, LF>>
                            \o Cleanup(JsonDumps(rep.row.v))
                            \o <<LF, LF>> \o Dashes(33) \o <<LF, LF>>
                            \o Cleanup(JsonDumps(rep.agg.v)) \o <<LF, LF>>
                /\ \A e \in RawEscapes : ~Contains(o.text, e)

C4_Witness ==
    /\ pc = "prompt"
    /\ ExtsOf(orig[cur].files) = {"pdf", "xlsx"}
    /\ rep.pdf.has /\ rep.row.has /\ rep.agg.has
    /\ Contains(JsonDumps(rep.pdf.v), Esc3010)
    /\ Contains(JsonDumps(rep.agg.v), Esc2020)
    /\ rep.row.v # rep.pdf.v /\ rep.row.v # rep.agg.v
    /\ \E o \in ArchivedNow : Contains(o.text, <<"[">>)

\* the folders whose iteration has reached the operator prompt
ProcessedSoFar ==
    {n \in Names : orig[n].kind = "dir" /\ n \notin Range(todo)}
HasOutput(n) == \E o \in proc[n].outs : o.ts >= 1

\* C5: at the operator prompt every folder processed so far is gone from
\* submissions/, processed/<name> holds its files with their contents, and
\* the output file has left data/ and is in processed/<name> under a
\* timestamped name; also when processed/<name> existed before.
C5_ArchivedIntact ==
    pc = "prompt"
        => /\ ~buf.exists
           /\ \A n \in ProcessedSoFar :
                /\ subs[n].kind = "none"
                /\ proc[n].exists
                /\ orig[n].files \subseteq proc[n].files
                /\ HasOutput(n)

\* C6: monitor_thread_run returns only after a retrieve call reported
\* completed, cancelled, expired or failed; it returns the run of that call,
\* after at least one retrieve, and it has slept 5 units for each retrieve.
C6_ReturnsOnlyTerminal ==
    /\ returned # NoRun
          => /\ returned.status \in TerminalStatuses
             /\ returned = run
             /\ returned.id = runId
             /\ polls >= 1
    /\ pc \in {"pdf_list", "xlsx_list1", "xlsx_list2"} => returned # NoRun
    /\ pc = "poll" => returned = NoRun /\ slept = 5 * polls
    /\ (pc = "poll" /\ polls >= 1) => run = [id |-> runId, status |-> status]

C6_Witness ==
    /\ pc \in {"pdf_list", "xlsx_list1", "xlsx_list2"}
    /\ returned # NoRun
    /\ polls = 2

\* C7: the three substitutions applied twice give what they give applied
\* once, and after one application none of the three escapes is left.
C7_SubstituteIdempotent ==
    (cmode = "subst" /\ Len(chist) = 2)
        => /\ chist[2] = chist[1]
           /\ \A e \in RawEscapes : ~Contains(chist[1], e)

C7_Witness ==
    /\ cmode = "subst" /\ Len(chist) = 2
    /\ chist[1] # ctext
    /\ Contains(chist[1], <<BS>>)

Mixed(t) == Contains(t, <<LF>>) /\ Contains(t, EscN)

\* C8 as stated: some text that mixes literal newlines with escaped ones
\* comes out of a second cleanup pass different from the first.
C8_SomeMixedTextChanges ==
    \E t \in TextInputs : Mixed(t) /\ Cleanup(Cleanup(t)) # Cleanup(t)

\* C8 amended: the cleanup pass is idempotent also on a text that mixes
\* literal newlines with escaped ones: a second pass changes nothing.
C8_CleanupIdempotentOnMixed ==
    (cmode = "full" /\ Len(chist) = 2 /\ Mixed(ctext))
        => /\ chist[2] = chist[1]
           /\ ~Contains(chist[1], EscN)

C8_Witness ==
    /\ cmode = "full" /\ Len(chist) = 2
    /\ Mixed(ctext)
    /\ chist[1] # ctext

\* the statements of one folder's iteration, lines 225-264
InIteration ==
    {"clear", "copy", "pdf_create", "pdf_upload", "pdf_bind", "pdf_thread",
     "pdf_run", "poll", "pdf_list", "pdf_write", "pdf_delete", "xlsx_glob",
     "xlsx_upload", "xlsx_thread", "xlsx_run1", "xlsx_list1", "xlsx_append1",
     "xlsx_msg2", "xlsx_list2", "xlsx_append2", "read_out", "clean",
     "move_folder", "move_out"}
Archived(n) == orig[n].kind = "dir" /\ subs[n].kind = "none"
HalfProcessed == {n \in Names : Archived(n) /\ ~HasOutput(n)}

\* C9 as stated: when the process stops inside an iteration the folder is
\* still under submissions/, and no folder is archived without its output.
C9_FolderNotMovedAtCrash ==
    (Crashed /\ crashAt \in InIteration)
        => /\ subs[cur].kind = "dir"
           /\ HalfProcessed = {}

\* C9 amended: when the process stops inside an iteration before the folder
\* was moved (line 257) the folder is still under submissions/ and no
\* folder is archived without its output; when it stops between the two
\* moves, the current folder, and only it, is archived without its output.
C9_AtMostCurrentHalfProcessed ==
    /\ (Crashed /\ crashAt \in InIteration \ {"move_out"})
          => subs[cur].kind = "dir" /\ HalfProcessed = {}
    /\ (Crashed /\ crashAt = "move_out")
          => subs[cur].kind = "none" /\ HalfProcessed = {cur}
    /\ (Crashed /\ crashAt \notin InIteration) => HalfProcessed = {}

C9_Witness ==
    /\ pc = "killed" /\ crashAt = "move_out"
    /\ HalfProcessed = {cur}
    /\ \E n \in Names \ {cur} : Archived(n) /\ HasOutput(n)

\* the statements of process_submission_pdf at which its index exists
HoldingIndex ==
    {"pdf_upload", "pdf_bind", "pdf_thread", "pdf_run", "pdf_list",
     "pdf_write", "pdf_delete"}
InPdfStage(at) == at \in HoldingIndex \/ (at = "poll" /\ retpc = "pdf_list")

\* C10: the index of process_submission_pdf is live from its creation to the
\* delete call at the end of the stage and at no other time: none is live
\* once the stage has returned, at most one is live, and when the process
\* stops inside the stage the index stays live.
C10_IndexDeletedOnReturnOnly ==
    /\ Cardinality(remote.live) <= 1
    /\ (~Crashed /\ InPdfStage(pc)) => (vs >= 1 /\ remote.live = {vs})
    /\ (~Crashed /\ ~InPdfStage(pc)) => remote.live = {}
    /\ (Crashed /\ InPdfStage(crashAt) /\ crashAt # "pdf_delete")
          => remote.live = {remote.created}
    /\ (Crashed /\ ~InPdfStage(crashAt)) => remote.live = {}

C10_Witness ==
    /\ pc = "aborted" /\ crashAt = "pdf_list"
    /\ remote.created = 2
    /\ remote.live = {2}

====
